---- MODULE Spec2Model ----
(***************************************************************************)
(* Model of the three plot functions of sdomain_test_plotters:             *)
(*   plot_sdomain and plot_impedance (src/main.rs) and                     *)
(*   pdn_plotter::plot -> draw (src/pdn_impedance_plotter.rs).             *)
(* One behaviour of the model is one plot call: the inputs are chosen in   *)
(* Init, every statement group of the function body is one action, and     *)
(* every drawing call that returns a Result may succeed or fail; a failed  *)
(* Result is unwrapped by the code, which panics.                          *)
(*                                                                         *)
(* f64 values.  A number is a record [k, hi, lo] that stands for           *)
(*   hi * 10^12 + lo / Scale        (k = "fin")                            *)
(* so that the constants of the code (0.0, 1.0, 1e4, 1e12) and samples on  *)
(* a 1/Scale grid are all exact; k = "inf" is +infinity and k = "nan" is   *)
(* NaN, whose comparisons are all false as in IEEE 754.                    *)
(*                                                                         *)
(* Frequencies.  A frequency is the integer step index i of the sweep; it  *)
(* stands for 10^(i / PointsPerDecade) Hz, so 1 Hz is 0 and 10 MHz is      *)
(* 7 * PointsPerDecade.                                                    *)
(***************************************************************************)
EXTENDS Integers, Sequences, FiniteSets, TLC

VARIABLES fn, name, fs, impedance_target, pc,
          freq_data, complex_data, mag_data, phase_data,
          min_mag, max_mag, chart, anno, ops, result, failed

vars == <<fn, name, fs, impedance_target, pc,
          freq_data, complex_data, mag_data, phase_data,
          min_mag, max_mag, chart, anno, ops, result, failed>>

\* Resolution of the fixed-point grid: lo counts 1/Scale units.
Scale == 4
\* Samples per decade of the sweep (the code passes 100).
PointsPerDecade == 1
\* log10 of the upper sweep bound 10.0e6 of plot_sdomain and plot_impedance.
MAIN_MAX_FREQ == 7
\* log10 of MAX_FREQ = 100e6 of pdn_plotter::draw.
MAX_FREQ == 8

(***************************************************************************)
(* f64                                                                     *)
(***************************************************************************)
Fin(h, l) == [k |-> "fin", hi |-> h, lo |-> l]
\* whole + frac/Scale, as a count of 1/Scale units
Q(whole, frac) == whole * Scale + frac
Zero == Fin(0, 0)
NaN == [k |-> "nan", hi |-> 0, lo |-> 0]
Inf == [k |-> "inf", hi |-> 0, lo |-> 0]
\* the value of a variable the function has not assigned yet
Unset == [k |-> "unset", hi |-> 0, lo |-> 0]

IsFinite(a) == a.k = "fin"

\* a < b
Lt(a, b) ==
    IF a.k = "nan" \/ b.k = "nan" THEN FALSE
    ELSE IF a.k = "inf" THEN FALSE
    ELSE IF b.k = "inf" THEN TRUE
    ELSE a.hi < b.hi \/ (a.hi = b.hi /\ a.lo < b.lo)

\* a > b
Gt(a, b) == Lt(b, a)

\* a <= b
Le(a, b) ==
    IF a.k = "nan" \/ b.k = "nan" THEN FALSE
    ELSE a = b \/ Lt(a, b)

\* a + n for an integer n
AddF(a, n) == IF a.k = "fin" THEN Fin(a.hi, a.lo + n * Scale) ELSE a

\* a * 1e4
Mul1e4(a) == IF a.k = "fin" THEN Fin(a.hi * 10000, a.lo * 10000) ELSE a

NegF(a) == IF a.k = "fin" THEN Fin(-a.hi, -a.lo) ELSE a

AbsF(a) == IF a.k = "fin" /\ Lt(a, Zero) THEN NegF(a) ELSE a

\* floor and ceil of a number (hi * 10^12 is an integer)
FloorF(a) == IF a.k = "fin" THEN Fin(a.hi, a.lo - (a.lo % Scale)) ELSE a
CeilF(a) == NegF(FloorF(NegF(a)))

(***************************************************************************)
(* Option<f64>                                                             *)
(***************************************************************************)
None == [some |-> FALSE, val |-> Zero]
Some(v) == [some |-> TRUE, val |-> v]

(***************************************************************************)
(* The consumed contracts: the sampler, the evaluator and the complex      *)
(* value (crate sdomain_test).  A complex sample is [re, im]; the samples  *)
(* of the model lie on the real or the imaginary axis (a resistance or a   *)
(* reactance), where modulus and angle are exact.                          *)
(***************************************************************************)
Cx(r, i) == [re |-> r, im |-> i]
R(x) == Cx(x, Zero)
XL(x) == Cx(Zero, x)
XC(x) == Cx(Zero, NegF(x))

\* gen_log_range(low, high, ratio, points_per_decade) with low and high given
\* as their log10 and ratio = 10: the steps 0, 1, ... while the step's
\* frequency does not exceed high.
gen_log_range(low, high, ppd) == [i \in 1..((high - low) * ppd + 1) |-> low * ppd + i - 1]

\* Fs::calculate_freq: a model is a finite pattern of samples repeated along
\* the sweep.
calculate_freq(model, freq) == model[(freq % Len(model)) + 1]

\* Complex::mag
mag(c) ==
    IF c.re.k = "nan" \/ c.im.k = "nan" THEN NaN
    ELSE IF c.re.k = "inf" \/ c.im.k = "inf" THEN Inf
    ELSE IF c.im = Zero THEN AbsF(c.re)
    ELSE AbsF(c.im)

\* 20 * log10(m) on the moduli the models use, rounded to the 1/Scale grid
Log20(m) ==
    CASE m = Fin(0, Q(0, 1)) -> Fin(0, -Q(12, 0))
      [] m = Fin(0, Q(0, 2)) -> Fin(0, -Q(6, 0))
      [] m = Fin(0, Q(0, 3)) -> Fin(0, -Q(2, 2))
      [] m = Fin(0, Q(1, 0)) -> Fin(0, 0)
      [] m = Fin(0, Q(1, 2)) -> Fin(0, Q(3, 2))
      [] m = Fin(0, Q(3, 0)) -> Fin(0, Q(9, 2))
      [] m = Fin(0, Q(5000, 0)) -> Fin(0, Q(74, 0))
      [] m = Fin(2, 0) -> Fin(0, Q(246, 0))
      [] m = Fin(3, 0) -> Fin(0, Q(249, 2))
      [] m.k # "fin" -> m

\* Complex::mag_20log
mag_20log(c) == Log20(mag(c))

\* Complex::phase_deg, in degrees
phase_deg(c) ==
    IF c.re.k = "nan" \/ c.im.k = "nan" THEN NaN
    ELSE IF Gt(c.im, Zero) THEN Fin(0, Q(90, 0))
    ELSE IF Lt(c.im, Zero) THEN Fin(0, -Q(90, 0))
    ELSE IF Lt(c.re, Zero) THEN Fin(0, Q(180, 0))
    ELSE Zero

(***************************************************************************)
(* Inputs of a plot call                                                   *)
(***************************************************************************)
Fns == {"plot_sdomain", "plot_impedance", "pdn_plotter::plot"}

\* Models whose response is finite at every frequency.
FiniteModels ==
    { <<R(Fin(0, Q(1, 0)))>>,
      <<R(Fin(0, Q(0, 3))), XC(Fin(0, Q(0, 3)))>>,
      <<XC(Fin(0, Q(0, 2))), XC(Fin(0, Q(0, 1)))>>,
      <<R(Fin(0, Q(1, 2))), XL(Fin(0, Q(3, 0))), R(Fin(0, Q(0, 2)))>>,
      <<XC(Fin(0, Q(5000, 0))), R(Fin(0, Q(0, 1)))>>,
      <<R(Fin(2, 0)), XL(Fin(3, 0))>>,
      <<XL(Fin(0, Q(1, 2))), XC(Fin(0, Q(1, 2)))>> }

\* Models whose response is NaN or infinite at some frequency.
NonFiniteModels ==
    { <<R(Fin(0, Q(1, 0))), R(NaN)>>,
      <<R(NaN)>>,
      <<XL(Inf), R(Fin(0, Q(1, 0)))>> }

\* plot_sdomain and plot_impedance are private to main.rs and are called with
\* finite filters and components only; pdn_plotter::plot is public and takes
\* any PDNModel.
ModelsOf(f) ==
    IF f = "pdn_plotter::plot" THEN FiniteModels \cup NonFiniteModels
    ELSE FiniteModels

\* pdn_plotter::plot always passes "PDN" to draw.
NamesOf(f) == IF f = "pdn_plotter::plot" THEN {"PDN"} ELSE {"PDN", "RCL"}

\* plot_sdomain has no impedance_target parameter.
TargetsOf(f) ==
    IF f = "plot_sdomain" THEN {None}
    ELSE {None, Some(Fin(0, Q(0, 1))), Some(Fin(0, Q(1, 0)))}

\* log10 of the upper bound of the sweep and of the x axis
MaxFreqOf(f) == IF f = "pdn_plotter::plot" THEN MAX_FREQ ELSE MAIN_MAX_FREQ

(***************************************************************************)
(* Axis bounds                                                             *)
(***************************************************************************)
\* faulty variant of MaxLoop: the comparison never succeeds
MaxLoopNoUpdate(mags, acc) == acc

RECURSIVE MaxLoop(_, _)
\* for mag in mag_data.iter() {if max_mag < *mag {max_mag = *mag;}}
MaxLoop(mags, acc) ==
    IF mags = <<>> THEN acc
    ELSE MaxLoop(Tail(mags), IF Lt(acc, Head(mags)) THEN Head(mags) ELSE acc)

RECURSIVE MinLoop(_, _)
\* for mag in mag_data.iter() {if min_mag > *mag {min_mag = *mag;}}
MinLoop(mags, acc) ==
    IF mags = <<>> THEN acc
    ELSE MinLoop(Tail(mags), IF Gt(acc, Head(mags)) THEN Head(mags) ELSE acc)

\* plot_sdomain: let mut max_mag = 0.0; <loop>; max_mag += 1.0;
SdomainMaxMag(mags) == AddF(MaxLoop(mags, Zero), 1)

\* faulty variant of SdomainMinMag: the padding is added instead of subtracted
SdomainMinMagPlus(mags) == AddF(MinLoop(mags, Fin(1, 0)), 1)

\* plot_sdomain: let mut min_mag = 1e12; <loop>; min_mag -= 1.0;
SdomainMinMag(mags) == AddF(MinLoop(mags, Fin(1, 0)), -1)

\* plot_impedance and draw: let mut min_mag = 1e12; <loop>; min_mag *= 1e4;
ImpedanceMinMag(mags) == Mul1e4(MinLoop(mags, Fin(1, 0)))

(***************************************************************************)
(* The chart and what is drawn on the surface                              *)
(***************************************************************************)
BlankOp ==
    [op |-> "", axis |-> "", kind |-> "", data |-> <<>>, baseline |-> Unset,
     style |-> "", border |-> "", text |-> <<>>, entries |-> <<>>]

NoChart == [built |-> FALSE, x_max |-> 0, y_min |-> Unset, y_max |-> Unset, y_log |-> FALSE]

\* build_cartesian_2d((1.0..max).log_scale(), <y range>) and
\* set_secondary_coord((1.0..max).log_scale(), -180.0..180.0)
ChartOf(f, mn, mx) ==
    IF f = "plot_sdomain"
    THEN [built |-> TRUE, x_max |-> MaxFreqOf(f), y_min |-> mn, y_max |-> mx, y_log |-> FALSE]
    ELSE [built |-> TRUE, x_max |-> MaxFreqOf(f), y_min |-> Zero, y_max |-> mn, y_log |-> TRUE]

\* .caption(format!(...), ("Arial", 30)): the title is drawn when the chart is built
CaptionOp(f, nm) ==
    [BlankOp EXCEPT !.op = "caption",
                    !.text = IF f = "plot_sdomain" THEN <<"Bode Plot for ", nm>>
                             ELSE <<"Impedance of ", nm>>]

\* chart.configure_mesh().x_desc(..).y_desc(..).draw()
MeshOp(f) ==
    [BlankOp EXCEPT !.op = "mesh", !.axis = "primary",
                    !.text = IF f = "plot_sdomain" THEN <<"Frequency [Hz]", "Magnitude [dB]">>
                             ELSE <<"Frequency [Hz]", "Impedance [Ohm]">>]

\* chart.configure_secondary_axes().x_desc(..).y_desc(..).draw()
SecondaryAxesOp ==
    [BlankOp EXCEPT !.op = "axes", !.axis = "secondary",
                    !.text = <<"Frequency [Hz]", "Phase [deg]">>]

\* freq_data.clone().into_iter().zip(values)
Zip(freq, values) == [i \in 1..Len(freq) |-> <<freq[i], values[i]>>]

\* faulty variant of MagnitudeSeries: the target is ignored
MagnitudeSeriesLineOnly(f, target, freq, mags) ==
    [BlankOp EXCEPT !.op = "series", !.axis = "primary", !.kind = "line",
                    !.data = Zip(freq, mags), !.style = "GREEN"]

\* the series drawn on the primary axis: an AreaSeries with baseline res and
\* border PURPLE for Some(res), a LineSeries for None
MagnitudeSeries(f, target, freq, mags) ==
    IF f # "plot_sdomain" /\ target.some
    THEN [BlankOp EXCEPT !.op = "series", !.axis = "primary", !.kind = "area",
                         !.data = Zip(freq, mags), !.baseline = target.val,
                         !.style = "YELLOW.mix(0.3)", !.border = "PURPLE"]
    ELSE [BlankOp EXCEPT !.op = "series", !.axis = "primary", !.kind = "line",
                         !.data = Zip(freq, mags), !.style = "GREEN"]

\* .label(..).legend(..) on the series just drawn ("" where the code sets none)
MagnitudeAnno(f, target) ==
    IF f = "plot_sdomain" THEN [label |-> "Magnitude", legend |-> "GREEN"]
    ELSE IF ~target.some THEN [label |-> "Impedance", legend |-> "GREEN"]
    ELSE IF f = "pdn_plotter::plot" THEN [label |-> "Impedance", legend |-> "PURPLE"]
    ELSE [label |-> "", legend |-> ""]

\* faulty variant of PhaseSeries: the style follows the render mode
PhaseSeriesByTarget(freq, phases) ==
    [BlankOp EXCEPT !.op = "series", !.axis = "secondary", !.kind = "line",
                    !.data = Zip(freq, phases),
                    !.style = IF impedance_target.some THEN "RED" ELSE "RED.mix(0.4)"]

\* chart.draw_secondary_series(LineSeries::new(freq_phase_iter, &RED.mix(0.4)))
PhaseSeries(freq, phases) ==
    [BlankOp EXCEPT !.op = "series", !.axis = "secondary", !.kind = "line",
                    !.data = Zip(freq, phases), !.style = "RED.mix(0.4)"]

PhaseAnno == [label |-> "Phase", legend |-> "RED"]

IsLabelled(a) == a.label # ""

\* chart.configure_series_labels()...draw(): one entry per labelled series
SeriesLabelsOp(annos) ==
    [BlankOp EXCEPT !.op = "series_labels", !.entries = SelectSeq(annos, IsLabelled),
                    !.style = "GREY.mix(0.3)", !.border = "BLACK"]

(***************************************************************************)
(* One plot call                                                           *)
(***************************************************************************)
Init ==
    /\ fn \in Fns
    /\ name \in NamesOf(fn)
    /\ fs \in ModelsOf(fn)
    /\ impedance_target \in TargetsOf(fn)
    /\ pc = "sample"
    /\ freq_data = <<>>
    /\ complex_data = <<>>
    /\ mag_data = <<>>
    /\ phase_data = <<>>
    /\ min_mag = Unset
    /\ max_mag = Unset
    /\ chart = NoChart
    /\ anno = <<>>
    /\ ops = <<>>
    /\ result = "pending"
    /\ failed = "none"

\* .unwrap() on an Err: the thread panics and the function returns nothing
Panic(step) ==
    /\ pc' = "panicked"
    /\ result' = "panic"
    /\ failed' = step

\* let freq_data = gen_log_range(1.0, <max>, 10.0, 100);
Sample ==
    /\ pc = "sample"
    /\ freq_data' = gen_log_range(0, MaxFreqOf(fn), PointsPerDecade)
    /\ pc' = "evaluate"
    /\ UNCHANGED <<fn, name, fs, impedance_target, complex_data, mag_data, phase_data,
                   min_mag, max_mag, chart, anno, ops, result, failed>>

\* let complex_data = freq_data.iter().map(|freq| fs.calculate_freq(*freq)).collect();
Evaluate ==
    /\ pc = "evaluate"
    /\ complex_data' = [i \in 1..Len(freq_data) |-> calculate_freq(fs, freq_data[i])]
    /\ pc' = "derive"
    /\ UNCHANGED <<fn, name, fs, impedance_target, freq_data, mag_data, phase_data,
                   min_mag, max_mag, chart, anno, ops, result, failed>>

\* let mag_data = ...c.mag_20log() | c.mag()...; let phase_data = ...c.phase_deg()...;
Derive ==
    /\ pc = "derive"
    /\ mag_data' = [i \in 1..Len(complex_data) |->
                        IF fn = "plot_sdomain" THEN mag_20log(complex_data[i])
                        ELSE mag(complex_data[i])]
    /\ phase_data' = [i \in 1..Len(complex_data) |-> phase_deg(complex_data[i])]
    /\ pc' = "bound"
    /\ UNCHANGED <<fn, name, fs, impedance_target, freq_data, complex_data,
                   min_mag, max_mag, chart, anno, ops, result, failed>>

\* the min_mag / max_mag loops and their padding
Bound ==
    /\ pc = "bound"
    /\ IF fn = "plot_sdomain"
       THEN /\ max_mag' = SdomainMaxMag(mag_data)
            /\ min_mag' = SdomainMinMag(mag_data)
       ELSE /\ min_mag' = ImpedanceMinMag(mag_data)
            /\ UNCHANGED max_mag
    /\ pc' = "build"
    /\ UNCHANGED <<fn, name, fs, impedance_target, freq_data, complex_data, mag_data,
                   phase_data, chart, anno, ops, result, failed>>

\* ChartBuilder::on(..).caption(..)...build_cartesian_2d(..).unwrap().set_secondary_coord(..)
BuildChart ==
    /\ pc = "build"
    /\ \/ /\ chart' = ChartOf(fn, min_mag, max_mag)
          /\ ops' = Append(ops, CaptionOp(fn, name))
          /\ pc' = "mesh"
          /\ UNCHANGED <<result, failed>>
       \/ /\ Panic("build")
          /\ UNCHANGED <<chart, ops>>
    /\ UNCHANGED <<fn, name, fs, impedance_target, freq_data, complex_data, mag_data,
                   phase_data, min_mag, max_mag, anno>>

\* faulty variant of DrawMesh: the mesh is drawn before the bounds are computed
DrawMeshBeforeBound ==
    /\ pc \in {"bound", "mesh"}
    /\ ops' = Append(ops, MeshOp(fn))
    /\ pc' = "axes"
    /\ UNCHANGED <<fn, name, fs, impedance_target, freq_data, complex_data, mag_data,
                   phase_data, min_mag, max_mag, chart, anno, result, failed>>

\* chart.configure_mesh()...draw().unwrap();
DrawMesh ==
    /\ pc = "mesh"
    /\ \/ /\ ops' = Append(ops, MeshOp(fn))
          /\ pc' = "axes"
          /\ UNCHANGED <<result, failed>>
       \/ /\ Panic("mesh")
          /\ UNCHANGED ops
    /\ UNCHANGED <<fn, name, fs, impedance_target, freq_data, complex_data, mag_data,
                   phase_data, min_mag, max_mag, chart, anno>>

\* chart.configure_secondary_axes()...draw().unwrap();
DrawSecondaryAxes ==
    /\ pc = "axes"
    /\ \/ /\ ops' = Append(ops, SecondaryAxesOp)
          /\ pc' = "magnitude"
          /\ UNCHANGED <<result, failed>>
       \/ /\ Panic("axes")
          /\ UNCHANGED ops
    /\ UNCHANGED <<fn, name, fs, impedance_target, freq_data, complex_data, mag_data,
                   phase_data, min_mag, max_mag, chart, anno>>

\* chart.draw_series(..).unwrap()[.label(..).legend(..)], by impedance_target
DrawMagnitude ==
    /\ pc = "magnitude"
    /\ \/ /\ ops' = Append(ops, MagnitudeSeries(fn, impedance_target, freq_data, mag_data))
          /\ anno' = Append(anno, MagnitudeAnno(fn, impedance_target))
          /\ pc' = "phase"
          /\ UNCHANGED <<result, failed>>
       \/ /\ Panic("magnitude")
          /\ UNCHANGED <<ops, anno>>
    /\ UNCHANGED <<fn, name, fs, impedance_target, freq_data, complex_data, mag_data,
                   phase_data, min_mag, max_mag, chart>>

\* chart.draw_secondary_series(..).unwrap().label("Phase").legend(..);
DrawPhase ==
    /\ pc = "phase"
    /\ \/ /\ ops' = Append(ops, PhaseSeries(freq_data, phase_data))
          /\ anno' = Append(anno, PhaseAnno)
          /\ pc' = "legend"
          /\ UNCHANGED <<result, failed>>
       \/ /\ Panic("phase")
          /\ UNCHANGED <<ops, anno>>
    /\ UNCHANGED <<fn, name, fs, impedance_target, freq_data, complex_data, mag_data,
                   phase_data, min_mag, max_mag, chart>>

\* chart.configure_series_labels()...draw().unwrap();
DrawLegend ==
    /\ pc = "legend"
    /\ \/ /\ ops' = Append(ops, SeriesLabelsOp(anno))
          /\ pc' = "return"
          /\ UNCHANGED <<result, failed>>
       \/ /\ Panic("legend")
          /\ UNCHANGED ops
    /\ UNCHANGED <<fn, name, fs, impedance_target, freq_data, complex_data, mag_data,
                   phase_data, min_mag, max_mag, chart, anno>>

\* Ok(())
ReturnOk ==
    /\ pc = "return"
    /\ result' = "Ok"
    /\ pc' = "done"
    /\ UNCHANGED <<fn, name, fs, impedance_target, freq_data, complex_data, mag_data,
                   phase_data, min_mag, max_mag, chart, anno, ops, failed>>

Next ==
    \/ Sample
    \/ Evaluate
    \/ Derive
    \/ Bound
    \/ BuildChart
    \/ DrawMesh
    \/ DrawSecondaryAxes
    \/ DrawMagnitude
    \/ DrawPhase
    \/ DrawLegend
    \/ ReturnOk

Spec == Init /\ [][Next]_vars

(***************************************************************************)
(* Properties                                                              *)
(***************************************************************************)
Impedance == fn # "plot_sdomain"
BoundDone == pc \notin {"sample", "evaluate", "derive", "bound"}
Samples == {mag_data[i] : i \in 1..Len(mag_data)}
AllFinite == \A m \in Samples : IsFinite(m)

\* least and greatest element of a set of numbers (NaN where there is none)
MinOf(S) ==
    IF \E x \in S : \A y \in S : Le(x, y)
    THEN CHOOSE x \in S : \A y \in S : Le(x, y) ELSE NaN
MaxOf(S) ==
    IF \E x \in S : \A y \in S : Le(y, x)
    THEN CHOOSE x \in S : \A y \in S : Le(y, x) ELSE NaN

\* C1, as stated: in decibel mode the bounds of a non-empty series are
\* min = floor(min of the series) - 1 and max = ceil(max of the series) + 1,
\* whatever the sign of the samples.
C1_FloorCeilBounds ==
    (fn = "plot_sdomain" /\ BoundDone /\ mag_data # <<>>) =>
        /\ min_mag = AddF(FloorF(MinOf(Samples)), -1)
        /\ max_mag = AddF(CeilF(MaxOf(Samples)), 1)

\* C1, amended: in decibel mode the bounds of a non-empty series of finite
\* decibel values are min = (min of the series) - 1 and
\* max = max(0, max of the series) + 1, with no rounding.
C1_PaddedBounds ==
    (fn = "plot_sdomain" /\ BoundDone /\ mag_data # <<>>) =>
        /\ min_mag = AddF(MinOf(Samples), -1)
        /\ max_mag = AddF(MaxOf(Samples \cup {Zero}), 1)

\* a series of negative samples, one of them off the integers, has been bounded:
\* the upper bound is 0 + 1 and the lower bound is not an integer
C1_Witness ==
    /\ fn = "plot_sdomain" /\ BoundDone /\ mag_data # <<>>
    /\ \A m \in Samples : Lt(m, Zero)
    /\ max_mag = Fin(0, Q(1, 0))
    /\ FloorF(min_mag) # min_mag

\* C2: in decibel mode the bounds of a non-empty series satisfy
\* min_mag <= magnitude[i] <= max_mag for every i, and min_mag < max_mag.
C2_DecibelBoundsContain ==
    (fn = "plot_sdomain" /\ BoundDone /\ mag_data # <<>>) =>
        /\ \A i \in 1..Len(mag_data) : Le(min_mag, mag_data[i]) /\ Le(mag_data[i], max_mag)
        /\ Lt(min_mag, max_mag)

\* a series with samples on both sides of 0 dB has been bounded
C2_Witness ==
    /\ fn = "plot_sdomain" /\ BoundDone
    /\ \E m \in Samples : Lt(m, Zero)
    /\ \E m \in Samples : Gt(m, Fin(0, Q(1, 0)))

\* C3 (on finite series): in impedance mode the upper bound of the primary
\* axis is (min of the series) * 1e4 and the lower bound is 0.0, for every
\* magnitude range.
C3_UpperIsMinTimes1e4 ==
    (Impedance /\ chart.built /\ mag_data # <<>> /\ AllFinite) =>
        /\ chart.y_max = Mul1e4(MinOf(Samples))
        /\ chart.y_min = Zero

\* C4 (on finite series): in impedance mode the bounds of the primary axis
\* contain every sample of the series.
C4_ImpedanceBoundsContain ==
    (Impedance /\ chart.built /\ AllFinite) =>
        \A i \in 1..Len(mag_data) :
            Le(chart.y_min, mag_data[i]) /\ Le(mag_data[i], chart.y_max)

IsPrimarySeries(o) == o.op = "series" /\ o.axis = "primary"
IsSecondarySeries(o) == o.op = "series" /\ o.axis = "secondary"
OpNames(os) == [i \in 1..Len(os) |-> os[i].op]
IsPrefix(a, b) == Len(a) <= Len(b) /\ a = SubSeq(b, 1, Len(a))

\* the sweep and the derived series of model m under function f, from the contracts
SweepOf(f) == gen_log_range(0, MaxFreqOf(f), PointsPerDecade)
MagPairsOf(f, m) == [i \in 1..Len(SweepOf(f)) |->
                        <<SweepOf(f)[i], mag(calculate_freq(m, SweepOf(f)[i]))>>]
PhasePairsOf(f, m) == [i \in 1..Len(SweepOf(f)) |->
                        <<SweepOf(f)[i], phase_deg(calculate_freq(m, SweepOf(f)[i]))>>]

\* the call has executed draw_series / draw_secondary_series successfully
MagnitudeDrawn ==
    \/ pc \in {"phase", "legend", "return", "done"}
    \/ pc = "panicked" /\ failed \in {"phase", "legend"}
PhaseDrawn ==
    \/ pc \in {"legend", "return", "done"}
    \/ pc = "panicked" /\ failed = "legend"

C5_PrimarySeries ==
    LET prim == SelectSeq(ops, IsPrimarySeries) IN
    Impedance =>
        IF MagnitudeDrawn
        THEN /\ Len(prim) = 1
             /\ prim[1].data = MagPairsOf(fn, fs)
             /\ IF impedance_target.some
                THEN prim[1].kind = "area" /\ prim[1].baseline = impedance_target.val
                ELSE prim[1].kind = "line" /\ prim[1].baseline = Unset
        ELSE prim = <<>>

\* C5: the render mode alone selects the primary series - without a target
\* exactly one line series of the (frequency, magnitude) pairs and no area
\* series, with a target t exactly one area series of the same pairs with
\* baseline t and no line series - and the mode never changes during the call.
C5_ModeSelectsSeries ==
    [][impedance_target' = impedance_target /\ C5_PrimarySeries']_vars

\* a thresholded call has drawn its magnitude series and returned
C5_Witness ==
    /\ Impedance /\ impedance_target.some /\ pc = "done"
    /\ \E i \in 1..Len(ops) : ops[i].kind = "area"

\* C6: in Plain and in Thresholded mode the phase series is the same: one line
\* series of the (frequency[i], phase_deg[i]) pairs of the model on the
\* secondary axis, in the same style and label, drawn right after the
\* magnitude series; nothing of it depends on the target.
C6_PhaseSeriesSame ==
    LET sec == SelectSeq(ops, IsSecondarySeries) IN
    Impedance =>
        IF PhaseDrawn
        THEN /\ sec = << [BlankOp EXCEPT !.op = "series", !.axis = "secondary",
                                         !.kind = "line", !.style = "RED.mix(0.4)",
                                         !.data = PhasePairsOf(fn, fs)] >>
             /\ \E i \in 2..Len(ops) : IsSecondarySeries(ops[i]) /\ IsPrimarySeries(ops[i - 1])
             /\ anno[Len(anno)] = [label |-> "Phase", legend |-> "RED"]
        ELSE sec = <<>>

\* a thresholded call has drawn its phase series
C6_Witness ==
    /\ Impedance /\ impedance_target.some /\ PhaseDrawn
    /\ \E i \in 1..Len(ops) : IsSecondarySeries(ops[i])

\* C7: whenever a step of the call fails, the plot function returns a failure
\* result (Err) to its caller.
C7_FailureReturned ==
    failed # "none" => result = "Err"

NonFiniteSample ==
    \E i \in 1..Len(complex_data) :
        ~IsFinite(complex_data[i].re) \/ ~IsFinite(complex_data[i].im)

\* C8: if the evaluator returned a non-finite value at a sampled frequency,
\* nothing is drawn on the surface and the call fails with EvaluationFailed.
C8_NonFiniteFails ==
    NonFiniteSample =>
        /\ ops = <<>>
        /\ pc \in {"done", "panicked"} => result = "EvaluationFailed"

\* the stage a program point belongs to: Sample, Evaluate, Derive, Bound,
\* Render, Done / Failed
StageOf(p) ==
    CASE p = "sample" -> 1
      [] p = "evaluate" -> 2
      [] p = "derive" -> 3
      [] p = "bound" -> 4
      [] p \in {"build", "mesh", "axes", "magnitude", "phase", "legend", "return"} -> 5
      [] p \in {"done", "panicked"} -> 6

C9_DrawnInOrder ==
    /\ ops # <<>> =>
          /\ StageOf(pc) >= 5
          /\ freq_data # <<>> /\ Len(complex_data) = Len(freq_data)
          /\ Len(mag_data) = Len(freq_data) /\ Len(phase_data) = Len(freq_data)
          /\ min_mag # Unset /\ chart.built
    /\ IsPrefix(OpNames(ops), <<"caption", "mesh", "axes", "series", "series", "series_labels">>)
    /\ \A i \in 1..Len(ops) : ops[i].op = "series" =>
          ops[i].axis = (IF i = 4 THEN "primary" ELSE "secondary")
    /\ pc = "done" => Len(ops) = 6

\* C9: a call passes through Sample, Evaluate, Derive, Bound, Render in this
\* order and ends in Done or Failed; no stage is entered twice; nothing is
\* drawn before every frequency is evaluated and the bounds are computed;
\* Render draws mesh, secondary axes, magnitude series, phase series, legend
\* in this order.
C9_LinearPipeline ==
    [][/\ StageOf(pc') \in {StageOf(pc), StageOf(pc) + 1}
       /\ StageOf(pc') = StageOf(pc) => StageOf(pc) = 5
       /\ C9_DrawnInOrder']_vars

\* a call has run through every stage and returned
C9_Witness == pc = "done" /\ result = "Ok" /\ Len(ops) = 6

\* what is drawn, without the sample data (the sweeps differ in length)
Shapes(os) == [i \in 1..Len(os) |-> [os[i] EXCEPT !.data = <<>>]]

\* the drawing operations and series annotations of a successful call of f
RenderOps(f, nm, m, target) ==
    << CaptionOp(f, nm), MeshOp(f), SecondaryAxesOp,
       MagnitudeSeries(f, target, SweepOf(f), [i \in 1..Len(SweepOf(f)) |-> Zero]),
       PhaseSeries(SweepOf(f), [i \in 1..Len(SweepOf(f)) |-> Zero]),
       SeriesLabelsOp(<<MagnitudeAnno(f, target), PhaseAnno>>) >>

\* C10: for the same model, name and render mode plot_impedance and
\* pdn_plotter::draw issue the same drawing operations with the same series
\* kinds, styles, labels and legend entries.
C10_PlottersEquivalent ==
    (fn = "plot_impedance" /\ name = "PDN" /\ pc = "done") =>
        /\ Shapes(ops) = Shapes(RenderOps("pdn_plotter::plot", name, fs, impedance_target))
        /\ anno = <<MagnitudeAnno("pdn_plotter::plot", impedance_target), PhaseAnno>>

====
